---- MODULE Spec2Model ----
(***************************************************************************)
(* Model of round1/squidward.py: Trader.run, the per-tick SMA crossover    *)
(* strategy.  One call of run is one step of the model.  The persisted     *)
(* string traderData is the only state the strategy carries across calls.  *)
(*                                                                         *)
(* Numbers.  Book prices are integers.  A mid-price is an integer or a     *)
(* half-integer, so every price kept in memory is held as twice its value  *)
(* (field v2).  The SMA comparisons of the code divide float sums by 3 and *)
(* by 6; the sums of half-integers are exact in binary floating point and  *)
(* the correctly rounded quotients compare as the exact quotients do, so   *)
(* the comparisons are made on the exact rationals, cross-multiplied.      *)
(***************************************************************************)
EXTENDS Integers, Sequences, FiniteSets, TLC

VARIABLES traderData,    \* state.traderData of the next call (a JSON text)
          lastData,      \* state.traderData of the last call
          order_depths,  \* state.order_depths of the last call
          result,        \* the orders mapping the last call returned
          conversions,   \* the conversions value the last call returned
          status,        \* "idle" before any call, then "returned" or "raised"
          firedBefore    \* products whose latest history update before the last
                         \* call emitted an order

vars == <<traderData, lastData, order_depths, result, conversions, status, firedBefore>>

-----------------------------------------------------------------------------
(* Program constants *)

short_window == 3

long_window == 6

order_quantity == 10

conversions_value == 1

-----------------------------------------------------------------------------
(* Bounds of the model *)

\* A session stops once the histories of price_history hold this many values.
MaxHist == 8

Products == {"A", "B"}

Prices == {1, 2}

Quantities == {1, 2}

-----------------------------------------------------------------------------
(* Small helpers *)

Max(S) == CHOOSE x \in S : \A y \in S : y <= x

Min(S) == CHOOSE x \in S : \A y \in S : x <= y

RECURSIVE SetToSeq(_)
SetToSeq(S) ==
    IF S = {} THEN <<>>
    ELSE LET x == CHOOSE y \in S : TRUE IN <<x>> \o SetToSeq(S \ {x})

Flat(n, e) == [i \in 1..n |-> e]

\* The empty mapping over products ({} in Python).
NoProducts == [p \in {} |-> <<>>]

-----------------------------------------------------------------------------
(* Values in memory.  An element of a history list is a number (num, with  *)
(* v2 twice its value) or something json.loads can also put in an array    *)
(* (a string: num FALSE).  A member of the history mapping is a list       *)
(* (list TRUE, with its items) or another JSON value (a null, a number).   *)
(* price_history itself is a dict (top "obj") or another JSON value.       *)

Num(n2) == [num |-> TRUE, v2 |-> n2]

NotANumber == [num |-> FALSE, v2 |-> 0]

ListOf(items) == [list |-> TRUE, items |-> items]

Scalar == [list |-> FALSE, items |-> <<>>]

Dict(d) == [top |-> "obj", dict |-> d]

NonDict(t) == [top |-> t, dict |-> NoProducts]

-----------------------------------------------------------------------------
(* The JSON text.  A number is written with its whole part and, when it is *)
(* not whole, its fractional digit 5; a string element is written quoted.  *)

NumberText(e) ==
    IF e.num THEN [quoted |-> FALSE, whole |-> e.v2 \div 2, frac |-> 5 * (e.v2 % 2)]
    ELSE [quoted |-> TRUE, whole |-> 0, frac |-> 0]

ParseNumber(t) ==
    IF t.quoted THEN NotANumber
    ELSE Num(2 * t.whole + (IF t.frac = 5 THEN 1 ELSE 0))

MemberText(m) == [list |-> m.list, items |-> [i \in 1..Len(m.items) |-> NumberText(m.items[i])]]

ParseMember(t) == [list |-> t.list, items |-> [i \in 1..Len(t.items) |-> ParseNumber(t.items[i])]]

\* json.dumps(price_history)
json_dumps(v) ==
    [kind |-> "json", top |-> v.top,
     members |-> [p \in DOMAIN v.dict |-> MemberText(v.dict[p])]]

\* json.loads(text): raises on a text that is no JSON document
json_loads(text) ==
    IF text.kind = "json"
    THEN [ok |-> TRUE,
          val |-> [top |-> text.top,
                   dict |-> [p \in DOMAIN text.members |-> ParseMember(text.members[p])]]]
    ELSE [ok |-> FALSE, val |-> Dict(NoProducts)]

\* The texts that are not JSON documents of their own.
Absent == [kind |-> "absent", top |-> "obj", members |-> NoProducts]

EmptyText == [kind |-> "empty", top |-> "obj", members |-> NoProducts]

Garbage == [kind |-> "garbage", top |-> "obj", members |-> NoProducts]

\* Variant: the except branch leaves price_history at None instead of {}.
LoadHistoryNoRecover(text) ==
    IF text.kind \in {"absent", "empty"} THEN Dict(NoProducts)
    ELSE LET r == json_loads(text) IN IF r.ok THEN r.val ELSE NonDict("null")

\* try: json.loads(state.traderData) if state.traderData else {}  except: {}
LoadHistory(text) ==
    IF text.kind \in {"absent", "empty"} THEN Dict(NoProducts)
    ELSE LET r == json_loads(text) IN IF r.ok THEN r.val ELSE Dict(NoProducts)

-----------------------------------------------------------------------------
(* The order book of one product and the mid-price taken from it *)

HasBuy(book) == DOMAIN book.buy_orders # {}

HasSell(book) == DOMAIN book.sell_orders # {}

\* Variant: the best bid taken with min() instead of max().
best_bidLowest(book) == Min(DOMAIN book.buy_orders)

best_bid(book) == Max(DOMAIN book.buy_orders)

best_ask(book) == Min(DOMAIN book.sell_orders)

\* The if/elif chain of the loop body: no mid-price when both sides are empty.
HasMid(book) == HasBuy(book) \/ HasSell(book)

\* Twice the mid-price: (best_bid + best_ask) / 2.0, else the one best price.
mid_price(book) ==
    IF HasBuy(book) /\ HasSell(book) THEN best_bid(book) + best_ask(book)
    ELSE IF HasBuy(book) THEN 2 * best_bid(book)
    ELSE 2 * best_ask(book)

-----------------------------------------------------------------------------
(* The moving averages over a history h of at least long_window + 1 items *)

RECURSIVE Sum(_)
Sum(s) == IF s = <<>> THEN 0 ELSE Head(s).v2 + Sum(Tail(s))

\* h[-k:]  (a slice is cut at the start of the list)
LastK(h, k) == SubSeq(h, Max({1, Len(h) - k + 1}), Len(h))

\* h[-k-1:-1]
PrevK(h, k) == SubSeq(h, Max({1, Len(h) - k}), Len(h) - 1)

\* sum() raises a TypeError on an item that is not a number.
Summable(h) == \A i \in (Len(h) - long_window)..Len(h) : h[i].num

\* Variant: the previous tick compared with < instead of <=.
CrossoverStrictBefore(h) ==
    /\ Sum(PrevK(h, short_window)) * long_window < Sum(PrevK(h, long_window)) * short_window
    /\ Sum(LastK(h, short_window)) * long_window > Sum(LastK(h, long_window)) * short_window

\* Variant: the current tick compared with >= instead of >.
CrossoverNonStrictNow(h) ==
    /\ Sum(PrevK(h, short_window)) * long_window <= Sum(PrevK(h, long_window)) * short_window
    /\ Sum(LastK(h, short_window)) * long_window >= Sum(LastK(h, long_window)) * short_window

\* sma_short_prev <= sma_long_prev and sma_short > sma_long
Crossover(h) ==
    /\ Sum(PrevK(h, short_window)) * long_window <= Sum(PrevK(h, long_window)) * short_window
    /\ Sum(LastK(h, short_window)) * long_window > Sum(LastK(h, long_window)) * short_window

Order(product, price, quantity) == [symbol |-> product, price |-> price, quantity |-> quantity]

\* Variant: the order sized by the quantity resting at the best ask.
OrdersForScaled(product, book, h) ==
    IF Len(h) >= long_window + 1 /\ Crossover(h) /\ HasSell(book)
    THEN <<Order(product, best_ask(book), book.sell_orders[best_ask(book)])>>
    ELSE <<>>

\* Variant: the test of the history length is left out (slices never raise).
OrdersForUnguarded(product, book, h) ==
    IF Crossover(h) /\ HasSell(book)
    THEN <<Order(product, best_ask(book), order_quantity)>>
    ELSE <<>>

\* The orders of one product, once its history h holds this tick's mid-price.
OrdersFor(product, book, h) ==
    IF Len(h) >= long_window + 1 /\ Crossover(h) /\ HasSell(book)
    THEN <<Order(product, best_ask(book), order_quantity)>>
    ELSE <<>>

-----------------------------------------------------------------------------
(* One pass of the loop body.  acc carries price_history (ph), result and  *)
(* whether an exception has left the loop (raised).                        *)

Raise(acc) == [acc EXCEPT !.raised = TRUE]

\* Variant: the history is cut to its last long_window + 1 values.
AppendedWindow(ph, product, book) ==
    LET old == IF product \in DOMAIN ph.dict THEN ph.dict[product].items ELSE <<>>
    IN  LastK(Append(old, Num(mid_price(book))), long_window + 1)

\* price_history[product].append(mid_price), after the "not in" test
Appended(ph, product, book) ==
    LET old == IF product \in DOMAIN ph.dict THEN ph.dict[product].items ELSE <<>>
    IN  Append(old, Num(mid_price(book)))

\* What stops the pass: "product not in price_history" and the item
\* assignment need a dict, .append needs a list, sum() needs numbers.
Fails(ph, product, book) ==
    \/ ph.top # "obj"
    \/ product \in DOMAIN ph.dict /\ ~ph.dict[product].list
    \/ LET h == Appended(ph, product, book)
       IN  Len(h) >= long_window + 1 /\ ~Summable(h)

\* Variant: a product with an empty book gets an empty order list.
ProcessProductKeepEmpty(acc, product, book) ==
    IF acc.raised THEN acc
    ELSE IF ~HasMid(book)
    THEN [acc EXCEPT !.result = (product :> <<>>) @@ acc.result]
    ELSE IF Fails(acc.ph, product, book) THEN Raise(acc)
    ELSE LET h == Appended(acc.ph, product, book)
         IN  [raised |-> FALSE,
              ph |-> Dict((product :> ListOf(h)) @@ acc.ph.dict),
              result |-> (product :> OrdersFor(product, book, h)) @@ acc.result]

ProcessProduct(acc, product, book) ==
    IF acc.raised \/ ~HasMid(book) THEN acc
    ELSE IF Fails(acc.ph, product, book) THEN Raise(acc)
    ELSE LET h == Appended(acc.ph, product, book)
         IN  [raised |-> FALSE,
              ph |-> Dict((product :> ListOf(h)) @@ acc.ph.dict),
              result |-> (product :> OrdersFor(product, book, h)) @@ acc.result]

RECURSIVE Loop(_, _, _)
Loop(acc, keys, depths) ==
    IF keys = <<>> THEN acc
    ELSE Loop(ProcessProduct(acc, Head(keys), depths[Head(keys)]), Tail(keys), depths)

\* The end of run: the exception leaves the call (nothing is returned, the
\* persisted text stays what it was), or the three values return.
Outcome(acc, text) ==
    IF acc.raised
    THEN [status |-> "raised", result |-> NoProducts, conversions |-> 0, traderData |-> text]
    ELSE [status |-> "returned", result |-> acc.result,
          conversions |-> conversions_value, traderData |-> json_dumps(acc.ph)]

\* Trader.run(state) with state.order_depths = depths, state.traderData = text
Run(depths, text) ==
    Outcome(Loop([raised |-> FALSE, ph |-> LoadHistory(text), result |-> NoProducts],
                 SetToSeq(DOMAIN depths), depths),
            text)

-----------------------------------------------------------------------------
(* Inputs *)

Sides == UNION {[S -> Quantities] : S \in SUBSET Prices}

\* A book whose best bid is below its best ask (or with a side empty).
Uncrossed(book) == HasBuy(book) /\ HasSell(book) => best_bid(book) < best_ask(book)

Books == {b \in [buy_orders : Sides, sell_orders : Sides] : Uncrossed(b)}

Snapshots == UNION {[S -> Books] : S \in SUBSET Products}

\* In a session product A is quoted in unit lots at one price a side, and
\* product B is quoted 1 / 2 whenever it is quoted.
UnitLots(book) ==
    /\ Cardinality(DOMAIN book.buy_orders) <= 1
    /\ Cardinality(DOMAIN book.sell_orders) <= 1
    /\ \A x \in DOMAIN book.buy_orders : book.buy_orders[x] = 1
    /\ \A x \in DOMAIN book.sell_orders : book.sell_orders[x] = 1

SessionBook(product, book) ==
    IF product = "A" THEN UnitLots(book)
    ELSE book = [buy_orders |-> (1 :> 1), sell_orders |-> (2 :> 1)]

SessionSnapshots == {d \in Snapshots : \A p \in DOMAIN d : SessionBook(p, d[p])}

\* The persisted texts a single call is tried on.
Elements == {Num(1), Num(2), Num(4), NotANumber}

Lists == {<<>>} \cup {Flat(n, e) : n \in {1, long_window}, e \in Elements}

Members == {Scalar} \cup {ListOf(l) : l \in Lists}

Values ==
    {NonDict(t) : t \in {"null", "num", "str", "arr"}}
        \cup {Dict(d) : d \in UNION {[S -> Members] : S \in SUBSET Products}}

Documents == {Absent, EmptyText, Garbage} \cup {json_dumps(v) : v \in Values}

-----------------------------------------------------------------------------
(* The state machine *)

RECURSIVE TotalLen(_, _)
TotalLen(d, S) ==
    IF S = {} THEN 0
    ELSE LET p == CHOOSE q \in S : TRUE
         IN  Len(d[p].items) + TotalLen(d, S \ {p})

Stored(text) == LET ph == LoadHistory(text) IN TotalLen(ph.dict, DOMAIN ph.dict)

Processed(depths) == {p \in DOMAIN depths : HasMid(depths[p])}

\* One call of Trader.run; the harness hands the returned text to the next call.
Tick(depths) ==
    \E r \in {Run(depths, traderData)} :
        /\ lastData' = traderData
        /\ order_depths' = depths
        /\ status' = r.status
        /\ result' = r.result
        /\ conversions' = r.conversions
        /\ traderData' = r.traderData
        /\ firedBefore' = (firedBefore \ Processed(order_depths))
                              \cup {p \in DOMAIN result : result[p] # <<>>}

InitWith(texts) ==
    /\ traderData \in texts
    /\ lastData = Absent
    /\ order_depths = NoProducts
    /\ result = NoProducts
    /\ conversions = 0
    /\ status = "idle"
    /\ firedBefore = {}

\* A session: it starts without persisted state and runs tick after tick.
Init == InitWith({Absent, EmptyText})

Next == Stored(traderData) < MaxHist /\ \E depths \in SessionSnapshots : Tick(depths)

Spec == Init /\ [][Next]_vars

\* A single call on any persisted text and any snapshot.
InitCall == InitWith(Documents)

NextCall == \E depths \in Snapshots : status = "idle" /\ Tick(depths)

SpecCall == InitCall /\ [][NextCall]_vars

-----------------------------------------------------------------------------
(* What the properties read from a state *)

\* The history list of a product in a persisted text, as twice its values.
HistoryIn(text, p) ==
    LET ph == LoadHistory(text)
    IN  IF p \in DOMAIN ph.dict
        THEN [i \in 1..Len(ph.dict[p].items) |-> ph.dict[p].items[i].v2]
        ELSE <<>>

Hist(p) == HistoryIn(traderData, p)

HistBefore(p) == HistoryIn(lastData, p)

Called == status # "idle"

Returned == status = "returned"

Emitted(p) == p \in DOMAIN result /\ result[p] # <<>>

RECURSIVE Total(_, _, _)
Total(h, from, to) == IF from > to THEN 0 ELSE h[from] + Total(h, from + 1, to)

\* Twice the mid-price of a book, from the best bid and the best ask.
TwiceMid(book) ==
    LET bids == DOMAIN book.buy_orders
        asks == DOMAIN book.sell_orders
        bid == CHOOSE b \in bids : \A x \in bids : x <= b
        ask == CHOOSE a \in asks : \A x \in asks : a <= x
    IN  IF bids # {} /\ asks # {} THEN bid + ask
        ELSE IF bids # {} THEN bid + bid
        ELSE ask + ask

\* The short mean (3 values ending at position n) is above / at most the
\* long mean (6 values ending at n): s/3 against l/6 is 2s against l.
ShortAbove(h, n) == 2 * Total(h, n - 2, n) > Total(h, n - 5, n)

ShortAtMost(h, n) == 2 * Total(h, n - 2, n) <= Total(h, n - 5, n)

-----------------------------------------------------------------------------
(* C1: every processed product gets a buy order exactly when its history   *)
(* (with this tick's mid-price) has at least 7 values, the short mean was  *)
(* at most the long mean one tick before and is above it now, and the      *)
(* product's sell_orders is not empty.                                     *)
C1_BuyIffCrossover ==
    Called =>
        \A p \in Processed(order_depths) :
            Emitted(p) <=>
                LET h == Hist(p)
                    n == Len(h)
                IN  /\ n >= 7
                    /\ ShortAtMost(h, n - 1)
                    /\ ShortAbove(h, n)
                    /\ DOMAIN order_depths[p].sell_orders # {}

\* Six equal values, then a higher mid-price: the order is emitted.
C1_Witness ==
    /\ Returned
    /\ "A" \in Processed(order_depths)
    /\ Emitted("A")
    /\ LET h == Hist("A")
       IN  Len(h) = 7 /\ (\A i \in 1..6 : h[i] = h[1]) /\ h[7] > h[1]

(* C2: a returned order list holds at most one order, and every order is a *)
(* buy of the list's own product, of quantity 10, priced at the lowest key *)
(* of the product's sell_orders in the snapshot of the call.               *)
C2_OneBuyAtBestAsk ==
    \A p \in DOMAIN result :
        /\ Len(result[p]) <= 1
        /\ \A i \in 1..Len(result[p]) :
              LET o == result[p][i]
                  asks == DOMAIN order_depths[p].sell_orders
              IN  /\ o.symbol = p
                  /\ o.quantity = 10
                  /\ o.quantity > 0
                  /\ asks # {}
                  /\ o.price \in asks
                  /\ \A a \in asks : o.price <= a

\* An order against a sell side of two price levels.
C2_Witness ==
    /\ Returned
    /\ \E p \in DOMAIN result :
          /\ Len(result[p]) = 1
          /\ Cardinality(DOMAIN order_depths[p].sell_orders) = 2
          /\ order_depths[p].sell_orders[result[p][1].price] # 10

(* C3: the history of every product in the returned state is its history   *)
(* in the incoming state with this tick's mid-price appended when the      *)
(* product's book has a non-empty side, and the incoming history otherwise *)
(* (so a history is never shortened and its earlier values never change).  *)
C3_HistoryAppendOnly ==
    Called =>
        \A p \in Products :
            Hist(p) = IF p \in DOMAIN order_depths /\ HasMid(order_depths[p])
                      THEN Append(HistBefore(p), TwiceMid(order_depths[p]))
                      ELSE HistBefore(p)

\* One product grows past the long window while the other, not quoted in
\* this tick, keeps its history.
C3_Witness ==
    /\ Returned
    /\ "A" \in Processed(order_depths)
    /\ Len(Hist("A")) = 7
    /\ Len(HistBefore("A")) = 6
    /\ "B" \notin Processed(order_depths)
    /\ Len(Hist("B")) = 1

(* C4: a product whose history, with this tick's mid-price, has fewer than *)
(* 7 values gets no order in this tick.                                    *)
C4_NoOrderBelowSeven ==
    \A p \in Products : Len(Hist(p)) < 7 => ~Emitted(p)

\* Six values, the last one above all the others, a sell side, and no order.
C4_Witness ==
    /\ Returned
    /\ "A" \in Processed(order_depths)
    /\ HasSell(order_depths["A"])
    /\ LET h == Hist("A")
       IN  Len(h) = 6 /\ (\A i \in 1..5 : h[i] < h[6])
    /\ result["A"] = <<>>

(* C5: a call on a persisted text that does not parse returns, and returns *)
(* the orders, the conversions value and the new state of the same call on *)
(* an empty and on an absent persisted text.                               *)
C5_UnparseableAsEmpty ==
    Called /\ lastData = Garbage =>
        /\ Returned
        /\ \A fresh \in {EmptyText, Absent} :
              LET r == Run(order_depths, fresh)
              IN  /\ r.status = "returned"
                  /\ result = r.result
                  /\ conversions = r.conversions
                  /\ traderData = r.traderData

\* A call on an unparseable text that processed both products.
C5_Witness ==
    /\ Called
    /\ lastData = Garbage
    /\ Processed(order_depths) = Products
    /\ \A p \in Products : Len(Hist(p)) = 1

(* C6: no call of run aborts: whatever the persisted text parses to, and   *)
(* whatever the snapshot, the call returns a result.                       *)
C6_NeverAborts == status # "raised"

(* C7: the mid-price appended for a product is the mean of the highest     *)
(* buy_orders key and the lowest sell_orders key when both sides are       *)
(* non-empty, and the best key of the one non-empty side otherwise.        *)
C7_MidPrice ==
    Returned =>
        \A p \in Processed(order_depths) :
            /\ Hist(p) # <<>>
            /\ Hist(p)[Len(Hist(p))] = TwiceMid(order_depths[p])

\* A two-level one-sided book with unequal quantities next to a two-sided book.
C7_Witness ==
    /\ Returned
    /\ Processed(order_depths) = Products
    /\ LET a == order_depths["A"]
           b == order_depths["B"]
       IN  /\ DOMAIN a.buy_orders = {1, 2} /\ a.buy_orders[1] # a.buy_orders[2]
           /\ ~HasSell(a)
           /\ HasBuy(b) /\ HasSell(b)

(* C8: the keys of the returned orders mapping are exactly the snapshot's  *)
(* products with a non-empty side of the book.                             *)
C8_ResultKeys ==
    Returned =>
        DOMAIN result = {p \in DOMAIN order_depths :
                            DOMAIN order_depths[p].buy_orders # {}
                                \/ DOMAIN order_depths[p].sell_orders # {}}

\* A has a history and an empty book, B is processed and gets no order.
C8_Witness ==
    /\ Returned
    /\ DOMAIN order_depths = Products
    /\ ~HasMid(order_depths["A"])
    /\ HistBefore("A") # <<>>
    /\ "B" \in DOMAIN result /\ result["B"] = <<>>
    /\ "A" \notin DOMAIN result

(* C10: when the latest history update of a product emitted an order, the  *)
(* next tick that updates the product's history emits none for it.         *)
C10_NoOrderTwiceInARow ==
    \A p \in Processed(order_depths) : p \in firedBefore => ~Emitted(p)

\* After an order for A, A is processed again on a still higher mid-price.
C10_Witness ==
    /\ Returned
    /\ "A" \in firedBefore
    /\ "A" \in Processed(order_depths)
    /\ HasSell(order_depths["A"])
    /\ LET h == Hist("A") IN Len(h) = 8 /\ h[8] > h[7]

====
